---- MODULE Spec2Model ----
(***************************************************************************)
(* Identity and monetization core of the Graphzy backend: token            *)
(* verification, auto-provisioning of accounts, the payment endpoints of   *)
(* three providers, the in-app-purchase endpoint and the tier update.      *)
(*                                                                         *)
(* Strings whose characters matter (ids, order ids, the PayTR form fields) *)
(* are sequences of symbols; <<>> is the empty string.  Python's None and  *)
(* "" are both falsy and are both written <<>> for such strings.           *)
(***************************************************************************)
EXTENDS Integers, Sequences, FiniteSets

VARIABLES
    graphzy_users,   \* the rows of table graphzy_users
    requests,        \* one record per request slot: position and locals
    env,             \* the environment variables that are set (non-empty)
    paypal_orders,   \* the orders PayPal holds for this merchant
    applied,         \* history: update_user_subscription calls per order id
    pure,            \* inputs and results of the pure-function specifications
    graphzy_charts,  \* the rows of table graphzy_charts
    created          \* history: the number of charts ever inserted

vars == <<graphzy_users, requests, env, paypal_orders, applied, pure,
          graphzy_charts, created>>

-----------------------------------------------------------------------------
(* Bounds *)

\* request slots served concurrently
Reqs == {"r1", "r2"}

\* deliveries of one confirmation that are followed
MaxApplied == 2

\* longest subject id whose order id is built and parsed
MaxIdLen == 4

\* largest chart_count the quota decision is taken for
MaxQuotaCount == 30

\* charts inserted while one user generates charts
MaxCreated == 7

\* charts inserted while two users generate and delete charts
MaxStored == 2

-----------------------------------------------------------------------------
(* Strings *)

None == <<>>

Truthy(s) == s # <<>>

\* "-" in s
Contains(s, c) == \E i \in 1..Len(s) : s[i] = c

\* index of the first c in s, Len(s)+1 when there is none
RECURSIVE IndexOf(_, _, _)
IndexOf(s, c, i) ==
    IF i > Len(s) THEN i
    ELSE IF s[i] = c THEN i
    ELSE IndexOf(s, c, i + 1)

\* s.split(c): the list of the segments between the separators
RECURSIVE split(_, _)
split(s, c) ==
    LET i == IndexOf(s, c, 1) IN
    IF i > Len(s) THEN <<s>>
    ELSE <<SubSeq(s, 1, i - 1)>> \o split(SubSeq(s, i + 1, Len(s)), c)

-----------------------------------------------------------------------------
(* Accounts *)

\* U2 has a dash in it, as a UUID has, and U1 is its first segment
U1 == <<"u", "1">>
U2 == <<"u", "1", "-", "x">>
UserIds == {U1, U2}

Email(u) == IF u = U1 THEN "u1@x" ELSE "u2@x"

Tiers == {"free", "pro"}

\* the dict both create_user and get_current_user fall back to
DefaultUser(user_id, email) ==
    [id |-> user_id, email |-> email, subscription_tier |-> "free", chart_count |-> 0]

\* a new row that starts with one chart counted
NewRow_counted(user_id, email) ==
    [id |-> user_id, email |-> email, first_name |-> "NULL", last_name |-> "NULL",
     subscription_tier |-> "free", chart_count |-> 1]

\* a row as the upsert inserts it: unnamed columns are NULL
NewRow(user_id, email) ==
    [id |-> user_id, email |-> email, first_name |-> "NULL", last_name |-> "NULL",
     subscription_tier |-> "free", chart_count |-> 0]

RowsOf(table, user_id) == {x \in table : x.id = user_id}

\* select * where id = user_id, maybe_single: the row, or nothing when there
\* is no row, when several match or when the call raises (ok = FALSE)
get_user_by_id(table, user_id, ok) ==
    IF ok /\ Cardinality(RowsOf(table, user_id)) = 1
    THEN RowsOf(table, user_id)
    ELSE {}

\* an insert that does not resolve the conflict on the id
upsert_appending(table, user_id, email) == table \cup {NewRow(user_id, email)}

\* upsert(..., on_conflict="id"): insert the row, or overwrite the named
\* columns of the row that has the id
upsert(table, user_id, email) ==
    IF RowsOf(table, user_id) = {}
    THEN table \cup {NewRow(user_id, email)}
    ELSE {IF x.id = user_id
          THEN [x EXCEPT !.email = email, !.subscription_tier = "free",
                         !.chart_count = 0]
          ELSE x : x \in table}

\* a create_user whose failed call has written the row all the same
create_user_half_done(table, user_id, email, ok) ==
    [table |-> upsert(table, user_id, email),
     user  |-> IF ok
               THEN CHOOSE x \in RowsOf(upsert(table, user_id, email), user_id) : TRUE
               ELSE DefaultUser(user_id, email)]

\* create_user: the table afterwards and the dict returned; a storage
\* error (ok = FALSE) is swallowed and the default dict returned
create_user(table, user_id, email, ok) ==
    IF ok
    THEN [table |-> upsert(table, user_id, email),
          user  |-> CHOOSE x \in RowsOf(upsert(table, user_id, email), user_id) : TRUE]
    ELSE [table |-> table, user |-> DefaultUser(user_id, email)]

\* the update without its filter on the id: every row gets the tier
update_user_subscription_unfiltered(table, user_id, tier) ==
    [table  |-> {[x EXCEPT !.subscription_tier = tier] : x \in table},
     result |-> table # {}]

\* update graphzy_users set subscription_tier = tier where id = user_id;
\* result is bool(response.data), FALSE when no row matched
update_user_subscription(table, user_id, tier) ==
    [table  |-> {IF x.id = user_id THEN [x EXCEPT !.subscription_tier = tier]
                 ELSE x : x \in table},
     result |-> RowsOf(table, user_id) # {}]

-----------------------------------------------------------------------------
(* Credential Verifier *)

\* A bearer token, by who accepts it: iss "supabase" is accepted by the
\* identity provider only, "local" decodes with settings.jwt_secret only,
\* "both" does both, "invalid" neither.  id and email are the subject the
\* token carries (<<>> and "" when the claim is missing).
SupabaseToken(u) == [iss |-> "supabase", id |-> u, email |-> Email(u)]
BadToken == [iss |-> "invalid", id |-> None, email |-> ""]
Tokens == {SupabaseToken(u) : u \in UserIds} \cup {BadToken}

\* the identity provider as SupabaseService.verify_token finds it: reachable,
\* raising in client.auth.get_user, or with no client (create_client raises,
\* as it does for the default empty supabase_url)
Providers == {"up", "raises", "no_client"}

\* SupabaseService.verify_token: the provider's user or nothing; raised when
\* get_client, which is called outside the try block, raises
supabase_verify_token(token, provider) ==
    IF provider = "no_client"
    THEN [raised |-> TRUE, user |-> {}]
    ELSE IF provider = "up" /\ token.iss \in {"supabase", "both"}
    THEN [raised |-> FALSE, user |-> {[id |-> token.id, email |-> token.email]}]
    ELSE [raised |-> FALSE, user |-> {}]

\* jwt.decode(token, settings.jwt_secret, algorithms=[settings.jwt_algorithm]):
\* the payload, or nothing when it raises JWTError
jwt_decode(token) ==
    IF token.iss \in {"local", "both"}
    THEN {[sub |-> token.id, email |-> token.email]}
    ELSE {}

\* JWTAuthMiddleware.verify_token with the calls it makes: every exception,
\* that of the provider call included, ends in None (the empty set)
jwt_verify_token(token, provider) ==
    LET user_data == supabase_verify_token(token, provider)
        payload == jwt_decode(token)
    IN  IF user_data.raised
        THEN [result |-> {}, calls |-> <<"get_user">>]
        ELSE IF user_data.user # {}
        THEN [result |-> {[user_id |-> x.id, email |-> x.email] : x \in user_data.user},
              calls  |-> <<"get_user">>]
        ELSE [result |-> {[user_id |-> x.sub, email |-> x.email] : x \in payload},
              calls  |-> <<"get_user", "jwt.decode">>]

\* a verifier that takes every token at its word
verify_token_lenient(token) == {[user_id |-> token.id, email |-> token.email]}

\* verify_token while the identity provider is reachable
verify_token(token) == jwt_verify_token(token, "up").result

-----------------------------------------------------------------------------
(* Configuration *)

\* the fields class Settings declares, with their defaults
settings ==
    [supabase_url |-> "", supabase_service_key |-> "", openai_api_key |-> "",
     jwt_secret |-> "your-secret-key-change-in-production",
     jwt_algorithm |-> "HS256", api_host |-> "0.0.0.0", api_port |-> "8000",
     debug |-> "True",
     cors_origins |-> "http://localhost:3000,http://localhost:8081"]

\* settings.<name> raises AttributeError for a field the class does not declare
HasAttr(obj, name) == name \in DOMAIN obj

\* what os.getenv can find, and "stripe": the stripe package imports
AllEnv == {"stripe", "STRIPE_SECRET_KEY", "STRIPE_PRICE_ID", "STRIPE_WEBHOOK_SECRET",
           "PAYPAL_CLIENT_ID", "PAYPAL_SECRET"}

\* a deployment with every secret set, and one with none
EnvChoices == {AllEnv, {}}

-----------------------------------------------------------------------------
(* Requests *)

AuthEndpoints ==
    {"create_checkout_session", "create_paypal_session", "capture_paypal_payment",
     "create_paytr_session", "verify_iap"}

\* inbound messages that claim a payment outcome
ConfirmationEndpoints ==
    {"stripe_webhook", "paypal_webhook", "paytr_callback", "verify_iap"}

PaymentEndpoints == AuthEndpoints \cup ConfirmationEndpoints

NoInput == [kind |-> "none"]
NoResp == [status |-> 0, detail |-> "", data |-> None]
Resp(status, detail) == [status |-> status, detail |-> detail, data |-> None]
RespData(status, detail, data) == [status |-> status, detail |-> detail, data |-> data]

\* a slot that serves no request.  log is the history of a request: the
\* upsert of create_user that storage executed, what that did to a stored
\* account, the subjects whose tier the body updated
IdleReq ==
    [pc |-> "idle", ep |-> "none", token |-> BadToken,
     current_user |-> DefaultUser(None, ""), input |-> NoInput, resp |-> NoResp,
     sig_verified |-> FALSE, log |-> {}]

\* what one storage write did to the accounts that were stored before it:
\* an existing row modified, a pro row demoted
Effects(before, after) ==
    {<<"modify", x.id>> : x \in {y \in before : RowsOf(after, y.id) # {y}}}
    \cup {<<"demote", x.id>> : x \in {y \in before :
             /\ y.subscription_tier = "pro"
             /\ \E z \in RowsOf(after, y.id) : z.subscription_tier # "pro"}}

\* the outcome of a handler body: its response, the table afterwards, whether
\* it verified a signature, the subjects it passed to update_user_subscription
Out(resp, table, verified, subjects) ==
    [resp |-> resp, table |-> table, verified |-> verified, subjects |-> subjects]

\* the handler of request q returns with outcome o; its locals are gone
Answer(q, o) ==
    [IdleReq EXCEPT !.pc = "done", !.ep = q.ep, !.input = q.input, !.resp = o.resp,
                    !.sig_verified = o.verified,
                    !.log = q.log \cup {<<"reconcile", s>> : s \in o.subjects}]

\* the response of the handler in slot r is ready to be sent
Respond(r, answer) == requests' = [requests EXCEPT ![r] = answer]

\* the handler body of endpoint ep runs in slot r on input
Body(r, ep, input) ==
    [ep |-> ep, input |-> input, current_user |-> requests[r].current_user,
     log |-> requests[r].log]

\* a webhook or callback arrives: no dependency runs before its body
Inbound(ep, input) ==
    [ep |-> ep, input |-> input, current_user |-> DefaultUser(None, ""), log |-> {}]

-----------------------------------------------------------------------------
(* Authentication boundary *)

\* get_current_user up to the account lookup: 401 for a token that does not
\* verify, else the stored row, else on to create_user, else the default dict.
\* The dependency is the same for every endpoint that declares it: the
\* endpoint and its input are drawn when the handler body runs.
\* get_current_user for a request carrying one of the given bearer tokens
get_current_user_for(r, tokens) ==
    /\ requests[r].pc = "idle"
    /\ \E token \in tokens, ok \in BOOLEAN, ep \in AuthEndpoints :
         LET q == [IdleReq EXCEPT !.token = token]
             ud == verify_token(token)
         IN  IF ud = {}
             THEN Respond(r, Answer(Inbound(ep, NoInput),
                                    Out(Resp(401, "Invalid or expired token"),
                                        graphzy_users, FALSE, {})))
             ELSE LET d == CHOOSE x \in ud : TRUE
                      user == get_user_by_id(graphzy_users, d.user_id, ok)
                  IN  requests' = [requests EXCEPT ![r] =
                            IF user # {}
                            THEN [q EXCEPT !.pc = "body",
                                           !.current_user = CHOOSE x \in user : TRUE]
                            ELSE IF Truthy(d.user_id) /\ d.email # ""
                            THEN [q EXCEPT !.pc = "create"]
                            ELSE [q EXCEPT !.pc = "body",
                                           !.current_user = DefaultUser(d.user_id, d.email)]]
    /\ UNCHANGED <<graphzy_users, env, paypal_orders, applied, pure, graphzy_charts, created>>

get_current_user(r) == get_current_user_for(r, Tokens)

\* get_current_user, the auto-creation of the account that was not found
get_current_user_create(r) ==
    /\ requests[r].pc = "create"
    /\ \E ok \in BOOLEAN :
         LET d == CHOOSE x \in verify_token(requests[r].token) : TRUE
             c == create_user(graphzy_users, d.user_id, d.email, ok)
         IN  /\ graphzy_users' = c.table
             /\ requests' = [requests EXCEPT ![r] =
                    [@ EXCEPT !.pc = "body", !.current_user = c.user,
                              !.log = Effects(graphzy_users, c.table)
                                      \cup {<<"upsert", d.user_id>> : x \in {ok} \ {FALSE}}]]
    /\ UNCHANGED <<env, paypal_orders, applied, pure, graphzy_charts, created>>

\* the response is sent and the slot is free again
Finish(r) ==
    /\ requests[r].pc = "done"
    /\ requests' = [requests EXCEPT ![r] = IdleReq]
    /\ UNCHANGED <<graphzy_users, env, paypal_orders, applied, pure, graphzy_charts, created>>

-----------------------------------------------------------------------------
(* In-app purchase *)

\* IAP receipts, by length
ReceiptLens == {0, 9, 10}
MinReceiptLen == 10

IapInputs == {[kind |-> "iap", receipt_len |-> n] : n \in ReceiptLens}

\* verify_iap: a receipt shorter than 10 characters is refused, any other
\* makes the caller pro; every exception ends as a 500
verify_iap_result(current_user, input, table, ok) ==
    IF input.receipt_len < MinReceiptLen
    THEN Out(Resp(500, "Failed to verify IAP: Invalid receipt data"), table, FALSE, {})
    ELSE IF ~ok
    THEN Out(Resp(500, "Failed to verify IAP"), table, FALSE, {})
    ELSE Out(Resp(200, "success"),
             update_user_subscription(table, current_user.id, "pro").table,
             FALSE, {current_user.id})

verify_iap(r) ==
    /\ requests[r].pc = "body"
    /\ \E input \in IapInputs, ok \in BOOLEAN :
         LET q == Body(r, "verify_iap", input)
             o == verify_iap_result(q.current_user, input, graphzy_users, ok)
         IN  /\ graphzy_users' = o.table
             /\ Respond(r, Answer(q, o))
    /\ UNCHANGED <<env, paypal_orders, applied, pure, graphzy_charts, created>>

-----------------------------------------------------------------------------
(* Stripe *)

StripeEvents ==
    {[id |-> <<"evt_1">>, type |-> "checkout.session.completed", user_id |-> U1],
     [id |-> <<"evt_2">>, type |-> "checkout.session.completed", user_id |-> None],
     [id |-> <<"evt_3">>, type |-> "invoice.paid", user_id |-> U1]}

PaypalOrderIds == {<<"PP1">>}

\* the orders whose reconciler applications are counted
OrderIds == {<<"evt_1">>} \cup PaypalOrderIds

\* the count after outcome o of a confirmation of order id
Count(id, o) ==
    IF id \in OrderIds /\ o.subjects # {}
    THEN [applied EXCEPT ![id] = @ + 1]
    ELSE applied

\* the confirmation of order id is followed: the count stays within its bound
Followed(id) == id \in OrderIds => applied[id] < MaxApplied

StripeOutcomes == {"session", "stripe_error", "other_error"}

create_checkout_session_result(environ, outcome) ==
    IF "stripe" \notin environ
    THEN Resp(500, "Stripe is not installed")
    ELSE IF "STRIPE_SECRET_KEY" \notin environ
    THEN Resp(500, "Stripe is not configured")
    ELSE IF "STRIPE_PRICE_ID" \notin environ
    THEN Resp(500, "Failed to create checkout session: Stripe Price ID not configured")
    ELSE IF outcome = "session"
    THEN RespData(200, "session", <<"cs_1">>)
    ELSE IF outcome = "stripe_error"
    THEN Resp(400, "Stripe error")
    ELSE Resp(500, "Failed to create checkout session")

create_checkout_session(r) ==
    /\ requests[r].pc = "body"
    /\ \E outcome \in StripeOutcomes :
         LET q == Body(r, "create_checkout_session", NoInput)
             o == Out(create_checkout_session_result(env, outcome), graphzy_users, FALSE, {})
         IN  Respond(r, Answer(q, o))
    /\ UNCHANGED <<graphzy_users, env, paypal_orders, applied, pure, graphzy_charts, created>>

\* a webhook that takes every event for a completed checkout
stripe_webhook_result_any_type(environ, event, table, ok) ==
    IF "stripe" \notin environ \/ "STRIPE_WEBHOOK_SECRET" \notin environ
    THEN Out(Resp(500, "Stripe webhook secret not configured"), table, FALSE, {})
    ELSE IF Truthy(event.user_id)
    THEN Out(Resp(200, "ok"),
             update_user_subscription(table, event.user_id, "pro").table,
             FALSE, {event.user_id})
    ELSE Out(Resp(200, "ok"), table, FALSE, {})

\* stripe_webhook: the event type and the user id in the metadata are taken
\* as posted; the webhook secret is only required to be set
stripe_webhook_result(environ, event, table, ok) ==
    IF "stripe" \notin environ
    THEN Out(Resp(500, "Stripe is not installed"), table, FALSE, {})
    ELSE IF "STRIPE_WEBHOOK_SECRET" \notin environ
    THEN Out(Resp(500, "Stripe webhook secret not configured"), table, FALSE, {})
    ELSE IF event.type = "checkout.session.completed" /\ Truthy(event.user_id)
    THEN IF ok
         THEN Out(Resp(200, "ok"),
                  update_user_subscription(table, event.user_id, "pro").table,
                  FALSE, {event.user_id})
         ELSE Out(Resp(500, "Internal Server Error"), table, FALSE, {})
    ELSE Out(Resp(200, "ok"), table, FALSE, {})

stripe_webhook(r) ==
    /\ requests[r].pc = "idle"
    /\ \E event \in StripeEvents, ok \in BOOLEAN :
         LET q == Inbound("stripe_webhook", [kind |-> "stripe", event |-> event])
             o == stripe_webhook_result(env, event, graphzy_users, ok)
         IN  /\ Followed(event.id)
             /\ graphzy_users' = o.table
             /\ applied' = Count(event.id, o)
             /\ Respond(r, Answer(q, o))
    /\ UNCHANGED <<env, paypal_orders, pure, graphzy_charts, created>>

-----------------------------------------------------------------------------
(* PayPal *)

PaypalConfigured(environ) ==
    "PAYPAL_CLIENT_ID" \in environ /\ "PAYPAL_SECRET" \in environ

PaypalCreateOutcomes ==
    {"auth_failed", "order_failed", "no_approve_link", "network_error", "created"}

\* create_paypal_session: the response; id is the order PayPal created
create_paypal_session_result(environ, outcome, id) ==
    IF ~PaypalConfigured(environ)
    THEN Resp(500, "PayPal is not configured")
    ELSE IF outcome = "created"
    THEN RespData(200, "approval_url", id)
    ELSE Resp(500, "Failed to create PayPal session")

create_paypal_session(r) ==
    /\ requests[r].pc = "body"
    /\ \E outcome \in PaypalCreateOutcomes, id \in PaypalOrderIds :
         LET q == Body(r, "create_paypal_session", NoInput)
             resp == create_paypal_session_result(env, outcome, id)
         IN  /\ resp.status = 200 => \A o \in paypal_orders : o.id # id
             /\ paypal_orders' =
                    IF resp.status = 200
                    THEN paypal_orders \cup
                         {[id |-> id, creator |-> q.current_user.id, captured |-> FALSE]}
                    ELSE paypal_orders
             /\ Respond(r, Answer(q, Out(resp, graphzy_users, FALSE, {})))
    /\ UNCHANGED <<graphzy_users, env, applied, pure, graphzy_charts, created>>

PaypalCaptureOutcomes ==
    {"auth_failed", "capture_failed", "not_completed", "network_error", "completed"}

CaptureInputs == {[kind |-> "capture", order_id |-> id] : id \in PaypalOrderIds}

\* capture_paypal_payment: only a capture response of status COMPLETED makes
\* the caller pro; every HTTPException raised on the way ends as a 500
capture_paypal_payment_result(environ, current_user, input, outcome, table, ok) ==
    IF ~PaypalConfigured(environ)
    THEN Out(Resp(500, "PayPal is not configured"), table, FALSE, {})
    ELSE IF outcome = "completed"
    THEN IF ok
         THEN Out(RespData(200, "completed", input.order_id),
                  update_user_subscription(table, current_user.id, "pro").table,
                  FALSE, {current_user.id})
         ELSE Out(Resp(500, "Failed to capture payment"), table, FALSE, {})
    ELSE IF outcome = "not_completed"
    THEN Out(Resp(500, "Failed to capture payment: Payment not completed"), table, FALSE, {})
    ELSE Out(Resp(500, "Failed to capture payment"), table, FALSE, {})

\* PayPal completes the capture of an order once
CanComplete(id) == \E o \in paypal_orders : o.id = id /\ ~o.captured

capture_paypal_payment(r) ==
    /\ requests[r].pc = "body"
    /\ \E input \in CaptureInputs, outcome \in PaypalCaptureOutcomes, ok \in BOOLEAN :
         LET q == Body(r, "capture_paypal_payment", input)
             o == capture_paypal_payment_result(env, q.current_user, input, outcome,
                                                graphzy_users, ok)
             completed == PaypalConfigured(env) /\ outcome = "completed"
         IN  /\ completed => CanComplete(input.order_id) /\ Followed(input.order_id)
             /\ paypal_orders' =
                    IF completed
                    THEN {IF x.id = input.order_id THEN [x EXCEPT !.captured = TRUE]
                          ELSE x : x \in paypal_orders}
                    ELSE paypal_orders
             /\ graphzy_users' = o.table
             /\ applied' = Count(input.order_id, o)
             /\ Respond(r, Answer(q, o))
    /\ UNCHANGED <<env, pure, graphzy_charts, created>>

PaypalEvents ==
    {[event_type |-> t, order_id |-> id] :
        t \in {"PAYMENT.CAPTURE.COMPLETED", "CHECKOUT.ORDER.APPROVED"},
        id \in PaypalOrderIds}

\* paypal_webhook reads the order id of a completed capture and does nothing
\* with it
paypal_webhook(r) ==
    /\ requests[r].pc = "idle"
    /\ \E event \in PaypalEvents :
         LET q == Inbound("paypal_webhook", [kind |-> "paypal", event |-> event])
         IN  Respond(r, Answer(q, Out(Resp(200, "ok"), graphzy_users, FALSE, {})))
    /\ UNCHANGED <<graphzy_users, env, paypal_orders, applied, pure, graphzy_charts, created>>

-----------------------------------------------------------------------------
(* PayTR *)

\* f"graphzy-{current_user['id']}-{uuid.uuid4().hex[:8]}"
paytr_order_id(user_id, suffix) ==
    <<"g", "r", "a", "p", "h", "z", "y", "-">> \o user_id \o <<"-">> \o suffix

\* merchant_oid.split("-")[1] if "-" in merchant_oid else None
paytr_user_id(merchant_oid) ==
    IF Contains(merchant_oid, "-") THEN split(merchant_oid, "-")[2] ELSE None

\* base64(HMAC-SHA256(key, msg)), collision-free: equal only for equal key and message
hmac_b64(key, msg) == <<"b64-hmac-sha256", key, msg>>

\* the callback hash over f"{merchant_oid}{merchant_salt}{status}{total_amount}"
paytr_callback_hash(key, salt, merchant_oid, status, total_amount) ==
    hmac_b64(key, merchant_oid \o salt \o status \o total_amount)

Success == <<"s", "u", "c", "c", "e", "s", "s">>
Failed == <<"f", "a", "i", "l", "e", "d">>

\* paytr_callback once the hash of the form has been verified: the branch on
\* the status, the subject taken from the order id, the tier update (whose
\* result is not looked at) and the acknowledgment
paytr_callback_status(form, table, ok) ==
    LET same(resp) == Out(resp, table, TRUE, {})
    IN
    IF form.status = Success
    THEN LET user_id == paytr_user_id(form.merchant_oid)
             u == update_user_subscription(table, user_id, "pro")
         IN  IF ~Truthy(user_id)
             THEN same(Resp(500, "Failed to update subscription: Could not extract user_id from order_id"))
             ELSE IF ~ok
             THEN same(Resp(500, "Failed to update subscription"))
             ELSE Out(Resp(200, "Payment completed and subscription updated"),
                      u.table, TRUE, {user_id})
    ELSE same(Resp(200, "Payment failed"))

\* paytr_callback under configuration cfg for the posted form: the response,
\* the table afterwards, whether the hash was verified, the subjects updated
paytr_callback_result(cfg, form, table, ok) ==
    LET same(resp) == Out(resp, table, FALSE, {})
    IN
    IF ~HasAttr(cfg, "paytr_merchant_key") \/ ~HasAttr(cfg, "paytr_merchant_salt")
    THEN same(Resp(500, "Internal Server Error"))
    ELSE IF ~Truthy(cfg.paytr_merchant_key) \/ ~Truthy(cfg.paytr_merchant_salt)
    THEN same(Resp(500, "PayTR is not configured"))
    ELSE IF \/ ~Truthy(form.merchant_oid) \/ ~Truthy(form.status)
            \/ ~Truthy(form.total_amount) \/ ~Truthy(form.hash)
    THEN same(Resp(400, "Missing required PayTR callback parameters"))
    ELSE IF paytr_callback_hash(cfg.paytr_merchant_key, cfg.paytr_merchant_salt,
                                form.merchant_oid, form.status, form.total_amount)
            # form.hash
    THEN same(Resp(400, "Invalid hash - possible security issue"))
    ELSE paytr_callback_status(form, table, ok)

\* the merchant credentials PayTR issued and signs its callbacks with
PaytrMerchantKey == <<"K">>
PaytrMerchantSalt == <<"S">>

Suffix == <<"a", "b", "1", "2", "c", "d", "3", "4">>
Amount == <<"1", "0", "0", "0">>

\* a callback as PayTR posts it
PaytrSigned(merchant_oid, status, total_amount) ==
    [kind |-> "paytr", merchant_oid |-> merchant_oid, status |-> status,
     total_amount |-> total_amount,
     hash |-> paytr_callback_hash(PaytrMerchantKey, PaytrMerchantSalt,
                                  merchant_oid, status, total_amount)]

\* the callbacks PayTR posts for the order of U1
PaytrCallbacks ==
    {PaytrSigned(paytr_order_id(U1, Suffix), Success, Amount),
     PaytrSigned(paytr_order_id(U1, Suffix), Failed, Amount)}

\* what a third party that saw them can post: the failed callback with its
\* status replaced, the successful one with the boundary between status and
\* amount moved, and one without its hash
PaytrForged ==
    {[PaytrSigned(paytr_order_id(U1, Suffix), Failed, Amount) EXCEPT !.status = Success],
     [PaytrSigned(paytr_order_id(U1, Suffix), Success, Amount)
         EXCEPT !.status = Success \o <<"1">>, !.total_amount = <<"0", "0", "0">>],
     [PaytrSigned(paytr_order_id(U1, Suffix), Success, Amount) EXCEPT !.hash = None]}

PaytrForms == PaytrCallbacks \cup PaytrForged

paytr_callback(r) ==
    /\ requests[r].pc = "idle"
    /\ \E form \in PaytrForms, ok \in BOOLEAN :
         LET q == Inbound("paytr_callback", form)
             o == paytr_callback_result(settings, form, graphzy_users, ok)
         IN  /\ graphzy_users' = o.table
             /\ Respond(r, Answer(q, o))
    /\ UNCHANGED <<env, paypal_orders, applied, pure, graphzy_charts, created>>

PaytrOutcomes == {"http_error", "api_error", "network_error", "token"}

\* create_paytr_session under configuration cfg: the response
create_paytr_session_result(cfg, current_user, suffix, outcome) ==
    IF \/ ~HasAttr(cfg, "paytr_merchant_id") \/ ~HasAttr(cfg, "paytr_merchant_key")
       \/ ~HasAttr(cfg, "paytr_merchant_salt") \/ ~HasAttr(cfg, "paytr_mode")
    THEN Resp(500, "Internal Server Error")
    ELSE IF \/ ~Truthy(cfg.paytr_merchant_id) \/ ~Truthy(cfg.paytr_merchant_key)
            \/ ~Truthy(cfg.paytr_merchant_salt)
    THEN Resp(500, "PayTR is not configured")
    ELSE IF outcome = "token"
    THEN RespData(200, "redirect_url", paytr_order_id(current_user.id, suffix))
    ELSE IF outcome = "http_error"
    THEN Resp(500, "Failed to create PayTR session: PayTR API HTTP error")
    ELSE IF outcome = "api_error"
    THEN Resp(500, "Failed to create PayTR session: PayTR error: reason")
    ELSE Resp(500, "PayTR API error")

create_paytr_session(r) ==
    /\ requests[r].pc = "body"
    /\ \E outcome \in PaytrOutcomes :
         LET q == Body(r, "create_paytr_session", NoInput)
             resp == create_paytr_session_result(settings, q.current_user, Suffix, outcome)
         IN  Respond(r, Answer(q, Out(resp, graphzy_users, FALSE, {})))
    /\ UNCHANGED <<graphzy_users, env, paypal_orders, applied, pure, graphzy_charts, created>>

-----------------------------------------------------------------------------
(* The system *)

NoPure == [fn |-> "none"]

Init ==
    /\ graphzy_users = {}
    /\ requests = [r \in Reqs |-> IdleReq]
    /\ env \in EnvChoices
    /\ paypal_orders = {}
    /\ applied = [o \in OrderIds |-> 0]
    /\ pure = NoPure
    /\ graphzy_charts = {}
    /\ created = 0

Next ==
    \E r \in Reqs :
        \/ get_current_user(r)
        \/ get_current_user_create(r)
        \/ verify_iap(r)
        \/ create_checkout_session(r)
        \/ stripe_webhook(r)
        \/ create_paypal_session(r)
        \/ capture_paypal_payment(r)
        \/ paypal_webhook(r)
        \/ create_paytr_session(r)
        \/ paytr_callback(r)
        \/ Finish(r)

Spec == Init /\ [][Next]_vars

-----------------------------------------------------------------------------
(* The PayTR order id, built and parsed back *)

IdAlphabet == {"u", "1", "-"}

\* the subject ids: every non-empty string up to MaxIdLen
IdStrings == UNION {[1..n -> IdAlphabet] : n \in 1..MaxIdLen}

\* no request is being served and nothing is stored
Quiet ==
    /\ graphzy_users = {}
    /\ requests = [r \in Reqs |-> IdleReq]
    /\ env = AllEnv
    /\ paypal_orders = {}
    /\ applied = [o \in OrderIds |-> 0]
    /\ graphzy_charts = {}
    /\ created = 0

InitOrderId ==
    /\ Quiet
    /\ pure \in {[fn |-> "order_id", step |-> "input", user_id |-> u,
                   merchant_oid |-> None, parsed |-> None] : u \in IdStrings}

\* create_paytr_session builds the order id of the caller
BuildOrderId ==
    /\ pure.fn = "order_id"
    /\ pure.step = "input"
    /\ pure' = [pure EXCEPT !.step = "built",
                            !.merchant_oid = paytr_order_id(pure.user_id, Suffix)]
    /\ UNCHANGED <<graphzy_users, requests, env, paypal_orders, applied, graphzy_charts, created>>

\* paytr_callback takes the subject id out of the order id echoed back
ParseOrderId ==
    /\ pure.fn = "order_id"
    /\ pure.step = "built"
    /\ pure' = [pure EXCEPT !.step = "parsed",
                            !.parsed = paytr_user_id(pure.merchant_oid)]
    /\ UNCHANGED <<graphzy_users, requests, env, paypal_orders, applied, graphzy_charts, created>>

NextOrderId == BuildOrderId \/ ParseOrderId

SpecOrderId == InitOrderId /\ [][NextOrderId]_vars

-----------------------------------------------------------------------------
(* The quota decision of generate_chart *)

FREE_CHART_LIMIT == 5

\* the comparison off by one: the sixth chart is still allowed
quota_exceeded_above(subscription_tier, chart_count) ==
    subscription_tier = "free" /\ chart_count > FREE_CHART_LIMIT

\* subscription_tier == "free" and chart_count >= FREE_CHART_LIMIT
quota_exceeded(subscription_tier, chart_count) ==
    subscription_tier = "free" /\ chart_count >= FREE_CHART_LIMIT

\* the quota check of generate_chart for the account view current_user:
\* the 403 that names the limit, or no response yet and the handler goes on
generate_chart_quota(current_user) ==
    IF quota_exceeded(current_user.subscription_tier, current_user.chart_count)
    THEN RespData(403, "Free users can only generate FREE_CHART_LIMIT charts. Upgrade to Pro for unlimited charts.",
                  FREE_CHART_LIMIT)
    ELSE NoResp

InitQuota ==
    /\ Quiet
    /\ pure \in {[fn |-> "quota", step |-> "input",
                   current_user |-> [DefaultUser(U1, Email(U1))
                                        EXCEPT !.subscription_tier = t, !.chart_count = c],
                   resp |-> NoResp] : t \in Tiers, c \in 0..MaxQuotaCount}

QuotaCheck ==
    /\ pure.fn = "quota"
    /\ pure.step = "input"
    /\ pure' = [pure EXCEPT !.step = "checked",
                            !.resp = generate_chart_quota(pure.current_user)]
    /\ UNCHANGED <<graphzy_users, requests, env, paypal_orders, applied, graphzy_charts, created>>

NextQuota == QuotaCheck

SpecQuota == InitQuota /\ [][NextQuota]_vars

-----------------------------------------------------------------------------
(* Token verification *)

\* the subject claims a locally signed token can carry
LocalTokens ==
    {[iss |-> "local", id |-> u, email |-> e] :
        u \in UserIds \cup {None}, e \in {Email(U1), Email(U2), ""}}

\* the users the identity provider knows, with and without an email address
ProviderTokens ==
    {[iss |-> i, id |-> u, email |-> e] :
        i \in {"supabase", "both"}, u \in UserIds, e \in {Email(U1), Email(U2), ""}}

VerifyTokens == Tokens \cup LocalTokens \cup ProviderTokens

InitVerify ==
    /\ Quiet
    /\ pure \in {[fn |-> "verify_token", step |-> "input", token |-> t, provider |-> p,
                   out |-> [result |-> {}, calls |-> <<>>]] :
                     t \in VerifyTokens, p \in Providers}

VerifyToken ==
    /\ pure.fn = "verify_token"
    /\ pure.step = "input"
    /\ pure' = [pure EXCEPT !.step = "verified",
                            !.out = jwt_verify_token(pure.token, pure.provider)]
    /\ UNCHANGED <<graphzy_users, requests, env, paypal_orders, applied, graphzy_charts, created>>

NextVerify == VerifyToken

SpecVerify == InitVerify /\ [][NextVerify]_vars

-----------------------------------------------------------------------------
(* The chart endpoints *)

ChartEndpoints == {"generate_chart", "delete_chart"}

\* update graphzy_users set chart_count = count where id = user_id
update_user_chart_count(table, user_id, count) ==
    [table  |-> {IF x.id = user_id THEN [x EXCEPT !.chart_count = count]
                 ELSE x : x \in table},
     result |-> RowsOf(table, user_id) # {}]

\* insert into graphzy_charts; the row gets the next id
create_chart(charts, id, user_id) == charts \cup {[id |-> id, user_id |-> user_id]}

\* select * from graphzy_charts where id = chart_id, maybe_single; nothing
\* when the call raises (ok = FALSE)
get_chart_by_id(charts, chart_id, ok) ==
    IF ok THEN {c \in charts : c.id = chart_id} ELSE {}

Max(a, b) == IF a >= b THEN a ELSE b

\* the template lookup, the generation and the two storage writes of
\* generate_chart, as they can turn out
GenerateOutcomes ==
    {"no_template", "premium_template", "generation_failed", "create_raised",
     "count_raised", "created"}

\* generate_chart for the account view current_user that get_current_user
\* returned: the response, and both tables afterwards.  The count written is
\* the count of the view plus one.
generate_chart_result(current_user, outcome, table, charts, id) ==
    LET same(resp) == [resp |-> resp, table |-> table, charts |-> charts]
        quota == generate_chart_quota(current_user)
    IN
    IF quota # NoResp
    THEN same(quota)
    ELSE IF outcome = "no_template"
    THEN same(Resp(404, "Template not found"))
    ELSE IF outcome = "premium_template" /\ current_user.subscription_tier = "free"
    THEN same(Resp(403, "This template requires a Pro subscription"))
    ELSE IF outcome = "generation_failed"
    THEN same(Resp(500, "Chart generation failed"))
    ELSE IF outcome = "create_raised"
    THEN same(Resp(500, "Internal Server Error"))
    ELSE IF outcome = "count_raised"
    THEN [resp |-> Resp(500, "Internal Server Error"), table |-> table,
          charts |-> create_chart(charts, id, current_user.id)]
    ELSE [resp   |-> RespData(200, "chart", <<id>>),
          table  |-> update_user_chart_count(table, current_user.id,
                                             current_user.chart_count + 1).table,
          charts |-> create_chart(charts, id, current_user.id)]

generate_chart(r) ==
    /\ requests[r].pc = "body"
    /\ \E outcome \in GenerateOutcomes :
         LET q == Body(r, "generate_chart", NoInput)
             o == generate_chart_result(q.current_user, outcome, graphzy_users,
                                        graphzy_charts, created + 1)
         IN  /\ o.charts # graphzy_charts => created < MaxCreated
             /\ graphzy_users' = o.table
             /\ graphzy_charts' = o.charts
             /\ created' = IF o.charts # graphzy_charts THEN created + 1 ELSE created
             /\ Respond(r, Answer(q, Out(o.resp, o.table, FALSE, {})))
    /\ UNCHANGED <<env, paypal_orders, applied, pure>>

ChartIds == 1..MaxCreated

DeleteInputs == {[kind |-> "delete", chart_id |-> id] : id \in ChartIds}

DeleteOutcomes == {"delete_raised", "count_raised", "deleted"}

\* delete_chart for the account view current_user: the chart must exist and
\* be the caller's; the count written is the count of the view minus one
delete_chart_result(current_user, input, outcome, table, charts, ok) ==
    LET same(resp) == [resp |-> resp, table |-> table, charts |-> charts]
        chart == get_chart_by_id(charts, input.chart_id, ok)
        rest == {c \in charts : c.id # input.chart_id}
    IN
    IF chart = {}
    THEN same(Resp(404, "Chart not found"))
    ELSE IF \E c \in chart : c.user_id # current_user.id
    THEN same(Resp(403, "You can only delete your own charts"))
    ELSE IF outcome = "delete_raised"
    THEN same(Resp(500, "Internal Server Error"))
    ELSE IF outcome = "count_raised"
    THEN [resp |-> Resp(500, "Internal Server Error"), table |-> table, charts |-> rest]
    ELSE [resp   |-> Resp(200, "Chart deleted successfully"),
          table  |-> update_user_chart_count(table, current_user.id,
                         Max(0, current_user.chart_count - 1)).table,
          charts |-> rest]

delete_chart(r) ==
    /\ requests[r].pc = "body"
    /\ \E input \in DeleteInputs, outcome \in DeleteOutcomes, ok \in BOOLEAN :
         LET q == Body(r, "delete_chart", input)
             o == delete_chart_result(q.current_user, input, outcome, graphzy_users,
                                      graphzy_charts, ok)
         IN  \* the id of a chart that was inserted, or one that never was
             /\ input.chart_id <= created + 1
             /\ graphzy_users' = o.table
             /\ graphzy_charts' = o.charts
             /\ Respond(r, Answer(q, Out(o.resp, o.table, FALSE, {})))
    /\ UNCHANGED <<env, paypal_orders, applied, pure, created>>

\* the chart endpoints serve an otherwise quiet deployment
InitCharts == Quiet /\ pure = NoPure

NextCharts ==
    \E r \in Reqs :
        \/ get_current_user(r)
        \/ get_current_user_create(r)
        \/ generate_chart(r) /\ created' <= MaxStored
        \/ delete_chart(r)
        \/ Finish(r)

SpecCharts == InitCharts /\ [][NextCharts]_vars

\* one user generates charts, in concurrent requests, and deletes none
NextGenerate ==
    \E r \in Reqs :
        \/ get_current_user(r) /\ requests'[r].token = SupabaseToken(U1)
        \/ get_current_user_create(r)
        \/ generate_chart(r)
        \/ Finish(r)

SpecGenerate == InitCharts /\ [][NextGenerate]_vars

-----------------------------------------------------------------------------
(* The partial updates of an account *)

\* name values: the column is NULL / the argument is None, or a string
Names == {"NULL", "", "Ann"}

\* update_user_profile: no update when both names are None; else the account
\* is looked up, created with email "" when the lookup (ok or not) found
\* nothing, and the names given are written; an exception ends in False
update_user_profile(table, user_id, first_name, last_name, lookup_ok, create_ok, update_ok) ==
    LET existing == get_user_by_id(table, user_id, lookup_ok)
        ensured == IF existing = {}
                   THEN create_user(table, user_id, "", create_ok).table
                   ELSE table
        updated == {IF x.id = user_id
                    THEN [x EXCEPT
                            !.first_name = IF first_name # "NULL" THEN first_name ELSE @,
                            !.last_name = IF last_name # "NULL" THEN last_name ELSE @]
                    ELSE x : x \in ensured}
    IN  IF first_name = "NULL" /\ last_name = "NULL"
        THEN [table |-> table, result |-> FALSE]
        ELSE IF ~update_ok
        THEN [table |-> ensured, result |-> FALSE]
        ELSE [table |-> updated, result |-> RowsOf(ensured, user_id) # {}]

\* accounts as the endpoints leave them: U1 in any state, with or without U2
StoredTables ==
    {{}} \cup
    {{[NewRow(U1, Email(U1)) EXCEPT !.subscription_tier = t, !.chart_count = c,
                                    !.first_name = n]} \cup others :
        t \in Tiers, c \in {0, 3}, n \in {"NULL", "Ann"},
        others \in {{}, {[NewRow(U2, Email(U2)) EXCEPT !.subscription_tier = "pro",
                                                       !.chart_count = 2]}}}

NoStore == [fn |-> "store", op |-> "none"]

InitStore ==
    /\ graphzy_users \in StoredTables
    /\ requests = [r \in Reqs |-> IdleReq]
    /\ env = AllEnv
    /\ paypal_orders = {}
    /\ applied = [o \in OrderIds |-> 0]
    /\ graphzy_charts = {}
    /\ created = 0
    /\ pure = NoStore

\* what pure records of one call: the function, its target, the fields it
\* was asked to write, the table before it
Called(op, user_id, fields) ==
    [fn |-> "store", op |-> op, user_id |-> user_id, fields |-> fields,
     before |-> graphzy_users]

StoreSubscription ==
    /\ pure = NoStore
    /\ \E u \in UserIds, t \in Tiers :
         /\ graphzy_users' = update_user_subscription(graphzy_users, u, t).table
         /\ pure' = Called("update_user_subscription", u, {"subscription_tier"})
    /\ UNCHANGED <<requests, env, paypal_orders, applied, graphzy_charts, created>>

StoreChartCount ==
    /\ pure = NoStore
    /\ \E u \in UserIds, c \in 0..2 :
         /\ graphzy_users' = update_user_chart_count(graphzy_users, u, c).table
         /\ pure' = Called("update_user_chart_count", u, {"chart_count"})
    /\ UNCHANGED <<requests, env, paypal_orders, applied, graphzy_charts, created>>

StoreProfile ==
    /\ pure = NoStore
    /\ \E u \in UserIds, f \in Names, l \in Names, ok1 \in BOOLEAN, ok2 \in BOOLEAN,
          ok3 \in BOOLEAN :
         /\ graphzy_users' =
                update_user_profile(graphzy_users, u, f, l, ok1, ok2, ok3).table
         /\ pure' = Called("update_user_profile", u,
                           {"first_name" : x \in {f} \ {"NULL"}}
                           \cup {"last_name" : x \in {l} \ {"NULL"}})
    /\ UNCHANGED <<requests, env, paypal_orders, applied, graphzy_charts, created>>

NextStore == StoreSubscription \/ StoreChartCount \/ StoreProfile

SpecStore == InitStore /\ [][NextStore]_vars

-----------------------------------------------------------------------------
(* The PayTR callback after its hash check *)

\* the order ids a verified callback can carry: the one built for U1, the one
\* built for a subject that has no account, one without a delimiter and one
\* with an empty second segment
PaytrOrderIds ==
    {paytr_order_id(U1, Suffix), paytr_order_id(<<"u", "2">>, Suffix),
     <<"g", "r", "a", "p", "h", "z", "y">>,
     <<"g", "r", "a", "p", "h", "z", "y", "-">>}

InitPaytrStatus ==
    /\ graphzy_users \in StoredTables
    /\ requests = [r \in Reqs |-> IdleReq]
    /\ env = AllEnv
    /\ paypal_orders = {}
    /\ applied = [o \in OrderIds |-> 0]
    /\ graphzy_charts = {}
    /\ created = 0
    /\ pure \in {[fn |-> "paytr_callback", step |-> "verified",
                   form |-> PaytrSigned(oid, status, Amount), ok |-> ok,
                   before |-> graphzy_users, resp |-> NoResp] :
                      oid \in PaytrOrderIds, status \in {Success, Failed},
                      ok \in BOOLEAN}

\* the handler goes on from the hash check to its answer
PaytrStatus ==
    /\ pure.fn = "paytr_callback"
    /\ pure.step = "verified"
    /\ LET o == paytr_callback_status(pure.form, graphzy_users, pure.ok)
       IN  /\ graphzy_users' = o.table
           /\ pure' = [pure EXCEPT !.step = "answered", !.resp = o.resp]
    /\ UNCHANGED <<requests, env, paypal_orders, applied, graphzy_charts, created>>

NextPaytrStatus == PaytrStatus

SpecPaytrStatus == InitPaytrStatus /\ [][NextPaytrStatus]_vars

-----------------------------------------------------------------------------
(* create_paytr_session against the answers of the PayTR token endpoint *)

\* the account views get_current_user hands to the handler
PaytrCallers ==
    {[DefaultUser(u, Email(u)) EXCEPT !.subscription_tier = t, !.chart_count = c] :
        u \in UserIds, t \in Tiers, c \in {0, 3}}

InitPaytrSession ==
    /\ graphzy_users \in StoredTables
    /\ requests = [r \in Reqs |-> IdleReq]
    /\ env = AllEnv
    /\ paypal_orders = {}
    /\ applied = [o \in OrderIds |-> 0]
    /\ graphzy_charts = {}
    /\ created = 0
    /\ pure \in {[fn |-> "create_paytr_session", step |-> "input",
                   current_user |-> u, outcome |-> outcome,
                   before |-> graphzy_users, resp |-> NoResp] :
                      u \in PaytrCallers, outcome \in PaytrOutcomes}

\* the handler runs under the settings of the application; outcome is how
\* the token endpoint answers a request sent to it
PaytrSession ==
    /\ pure.fn = "create_paytr_session"
    /\ pure.step = "input"
    /\ pure' = [pure EXCEPT !.step = "answered",
                            !.resp = create_paytr_session_result(
                                         settings, pure.current_user, Suffix,
                                         pure.outcome)]
    /\ UNCHANGED <<graphzy_users, requests, env, paypal_orders, applied,
                   graphzy_charts, created>>

NextPaytrSession == PaytrSession

SpecPaytrSession == InitPaytrSession /\ [][NextPaytrSession]_vars

-----------------------------------------------------------------------------
(* The account get_current_user resolves a token to *)

\* bearer tokens: issued by the provider, signed locally with and without a
\* sub or email claim, and one that nothing verifies
AuthTokens ==
    {SupabaseToken(u) : u \in UserIds} \cup {BadToken} \cup
    {[iss |-> "local", id |-> u, email |-> e] :
        u \in {U1, None}, e \in {Email(U1), ""}}

\* GET /auth/me returns the account get_current_user resolved
get_current_user_info(r) ==
    /\ requests[r].pc = "body"
    /\ LET q == Body(r, "get_current_user_info", NoInput)
       IN  Respond(r, Answer(q, Out(RespData(200, "me", q.current_user.id),
                                    graphzy_users, FALSE, {})))
    /\ UNCHANGED <<graphzy_users, env, paypal_orders, applied, pure, graphzy_charts, created>>

NextAuth ==
    \E r \in Reqs :
        \/ get_current_user_for(r, AuthTokens)
        \/ get_current_user_create(r)
        \/ get_current_user_info(r)
        \/ Finish(r)

SpecAuth == InitCharts /\ [][NextAuth]_vars

-----------------------------------------------------------------------------
(* Properties *)

Done(r) == requests[r].pc = "done"

\* the handler in slot r returns in this step
Answers(r) == requests[r].pc # "done" /\ requests'[r].pc = "done"

TiersOf(table) == {<<x.id, x.subscription_tier>> : x \in table}

IsPro(table, user_id) ==
    /\ RowsOf(table, user_id) # {}
    /\ \A x \in RowsOf(table, user_id) : x.subscription_tier = "pro"

\* C1: no inbound confirmation (stripe_webhook, paypal_webhook, paytr_callback,
\* verify_iap) changes a subscription_tier unless the handler has verified a
\* signature over it.  Fails: stripe_webhook and verify_iap verify nothing.
C1_SignatureBeforeMutation ==
    [][\A r \in Reqs :
          ( /\ Answers(r)
            /\ requests'[r].ep \in ConfirmationEndpoints
            /\ TiersOf(graphzy_users') # TiersOf(graphzy_users) )
          => requests'[r].sig_verified]_vars

\* C2: no payment-path operation changes the tier of a pro account to
\* anything else.  Fails: the create_user upsert of the get_current_user
\* dependency writes tier free over the stored row.
C2_ProNeverDemoted ==
    \A r \in Reqs :
        (Done(r) /\ requests[r].ep \in PaymentEndpoints)
        => \A e \in requests[r].log : e[1] # "demote"

\* C3: in paytr_callback a callback PayTR signed passes the hash check, and a
\* form that carries the hash of a signed callback over a different field
\* tuple is answered 400 invalid hash and changes no account.  Fails: the
\* handler raises on settings.paytr_merchant_key before it reads the form.
C3_HashRoundTrip ==
    \A r \in Reqs :
        ( /\ Done(r)
          /\ requests[r].ep = "paytr_callback"
          /\ Truthy(requests[r].input.hash) )
        => IF requests[r].input \in PaytrCallbacks
           THEN requests[r].sig_verified
           ELSE (\E g \in PaytrCallbacks : g.hash = requests[r].input.hash)
                => /\ requests[r].resp = Resp(400, "Invalid hash - possible security issue")
                   /\ requests[r].log = {}

\* C4: the subject id paytr_callback parses out of the order id that
\* create_paytr_session builds for caller u is u, for every id u, ids with a
\* dash included.  Fails for every id that contains a dash.
C4_SubjectRecovered ==
    (pure.fn = "order_id" /\ pure.step = "parsed") => pure.parsed = pure.user_id

\* C5: a paytr_callback with status success, the order id graphzy-<s>-<suffix>
\* of an existing account s and a correct hash leaves s pro and is answered
\* with the success acknowledgment.  Fails: the answer is a 500.
C5_SuccessCallbackUpgrades ==
    [][\A r \in Reqs :
          ( /\ Answers(r)
            /\ requests'[r].ep = "paytr_callback"
            /\ requests'[r].input =
                  PaytrSigned(paytr_order_id(U1, Suffix), Success, Amount)
            /\ RowsOf(graphzy_users, U1) # {} )
          => /\ IsPro(graphzy_users', U1)
             /\ requests'[r].resp =
                  Resp(200, "Payment completed and subscription updated")]_vars

\* C6: create_paypal_session changes no stored account; capture_paypal_payment
\* updates the caller's tier only on a COMPLETED capture and otherwise changes
\* no stored account.  Fails: the upsert of the get_current_user dependency.
C6_PaypalMutatesOnlyOnCompleted ==
    \A r \in Reqs :
        Done(r) =>
            /\ requests[r].ep = "create_paypal_session"
                  => \A e \in requests[r].log : e[1] = "upsert"
            /\ ( /\ requests[r].ep = "capture_paypal_payment"
                 /\ requests[r].resp.detail # "completed" )
                  => \A e \in requests[r].log : e[1] = "upsert"

\* C7: update_user_subscription is applied at most once per order id, however
\* often the confirmation of the order is delivered.  Fails: nothing records
\* that an order was applied.
C7_AtMostOncePerOrder == \A o \in OrderIds : applied[o] <= 1

\* C8: applying update_user_subscription(s, "pro") to an account that is pro
\* already leaves every stored account as it is and is answered without error.
C8_ReconcilerIdempotent ==
    [][\A r \in Reqs, s \in UserIds :
          ( /\ Answers(r)
            /\ <<"reconcile", s>> \in requests'[r].log
            /\ IsPro(graphzy_users, s) )
          => /\ graphzy_users' = graphzy_users
             /\ requests'[r].resp.status = 200]_vars

\* a second delivery of the Stripe event was applied to U1, which is pro
C8_Witness ==
    /\ applied[<<"evt_1">>] = 2
    /\ IsPro(graphzy_users, U1)
    /\ \E r \in Reqs : Done(r) /\ <<"reconcile", U1>> \in requests[r].log

\* C9: the quota check of generate_chart allows every count for tier pro, and
\* for the other tier allows exactly the counts below 5; a denial is a 403
\* that names the limit of 5.
C9_QuotaDecision ==
    (pure.fn = "quota" /\ pure.step = "checked") =>
        IF \/ pure.current_user.subscription_tier = "pro"
           \/ pure.current_user.chart_count < 5
        THEN pure.resp = NoResp
        ELSE pure.resp.status = 403 /\ pure.resp.data = 5

\* a free account with 5 charts is denied
C9_Witness ==
    /\ pure.fn = "quota"
    /\ pure.step = "checked"
    /\ pure.current_user.subscription_tier = "free"
    /\ pure.current_user.chart_count = 5
    /\ pure.resp.status = 403

\* C10: when two concurrent requests have both run create_user for the same
\* id, in whatever order their lookups and upserts interleaved, exactly one
\* account with that id is stored, with tier free and chart_count 0, and both
\* requests go on to their handler body.
C10_ConcurrentCreate ==
    \A r1, r2 \in Reqs, s \in UserIds :
        ( /\ r1 # r2
          /\ <<"upsert", s>> \in requests[r1].log /\ requests[r1].pc = "body"
          /\ <<"upsert", s>> \in requests[r2].log /\ requests[r2].pc = "body" )
        => /\ Cardinality(RowsOf(graphzy_users, s)) = 1
           /\ \A x \in RowsOf(graphzy_users, s) :
                 x.subscription_tier = "free" /\ x.chart_count = 0

\* both slots hold a request of U1 whose create_user call was executed
C10_Witness ==
    \E r1, r2 \in Reqs :
        /\ r1 # r2
        /\ <<"upsert", U1>> \in requests[r1].log /\ requests[r1].pc = "body"
        /\ <<"upsert", U1>> \in requests[r2].log /\ requests[r2].pc = "body"
        /\ Cardinality(RowsOf(graphzy_users, U1)) = 1

\* C11: the stored chart_count of an account decreases only in the step of a
\* delete_chart request of that user that deleted a chart.  Fails:
\* generate_chart writes the count of its own stale view plus one, and the
\* create_user upsert writes 0.
C11_CountDecreasesOnlyOnDelete ==
    [][\A x \in graphzy_users : \A y \in RowsOf(graphzy_users', x.id) :
          y.chart_count < x.chart_count
          => \E r \in Reqs :
                /\ Answers(r)
                /\ requests'[r].ep = "delete_chart"
                /\ requests'[r].resp.status = 200
                /\ requests[r].current_user.id = x.id
                /\ graphzy_charts' # graphzy_charts]_vars

\* C12: with the two request slots, one free user who deletes nothing never
\* has more than 5 + 1 charts.  Fails: a request whose view is stale writes a
\* lower count back and the quota check passes again.
C12_OverrunBounded ==
    Cardinality({c \in graphzy_charts : c.user_id = U1})
        <= FREE_CHART_LIMIT + (Cardinality(Reqs) - 1)

\* C13: for a token that verifies, get_current_user does not fail the
\* request: it hands a well-formed account (tier free or pro, chart_count >= 0)
\* to the handler, also when the lookup or the creation hit a storage error;
\* when the creation failed the account is the default view and nothing was
\* stored.
C13_AlwaysWellFormed ==
    [][\A r \in Reqs :
          /\ requests[r].pc = "create" => requests'[r].pc \in {"create", "body"}
          /\ (requests[r].pc \in {"idle", "create"} /\ requests'[r].pc = "body")
                => /\ requests'[r].current_user.subscription_tier \in {"free", "pro"}
                   /\ requests'[r].current_user.chart_count \in Nat
          /\ ( /\ requests[r].pc = "create"
               /\ requests'[r].pc = "body"
               /\ <<"upsert", requests[r].token.id>> \notin requests'[r].log )
                => /\ requests'[r].current_user =
                        DefaultUser(requests[r].token.id, requests[r].token.email)
                   /\ graphzy_users' = graphzy_users]_vars

\* the creation of the account of U1 failed: the handler holds the default
\* view and no account of U1 is stored
C13_Witness ==
    \E r \in Reqs :
        /\ requests[r].pc = "body"
        /\ requests[r].log = {}
        /\ requests[r].current_user = DefaultUser(U1, Email(U1))
        /\ RowsOf(graphzy_users, U1) = {}

\* C14: for a token that verifies to (s, e), both non-empty, with no account
\* stored for s, get_current_user goes on to create the account and returns
\* id s, email e, tier free, chart_count 0; unless storage failed, exactly
\* one account with id s is stored afterwards.
C14_FreshAccount ==
    [][\A r \in Reqs :
          /\ ( /\ requests[r].pc = "idle"
               /\ requests'[r].pc \in {"create", "body"}
               /\ RowsOf(graphzy_users, requests'[r].token.id) = {} )
                => requests'[r].pc = "create"
          /\ (requests[r].pc = "create" /\ requests'[r].pc = "body")
                => LET cu == requests'[r].current_user
                       s == requests[r].token.id
                   IN  /\ cu.id = s
                       /\ cu.email = requests[r].token.email
                       /\ cu.subscription_tier = "free"
                       /\ cu.chart_count = 0
                       /\ <<"upsert", s>> \in requests'[r].log
                            => RowsOf(graphzy_users', s) = {cu}]_vars

\* the account of U2 was created: it is stored and no stored row was overwritten
C14_Witness ==
    \E r \in Reqs :
        /\ requests[r].pc = "body"
        /\ requests[r].log = {<<"upsert", U2>>}
        /\ requests[r].current_user \in graphzy_users
        /\ graphzy_users = {NewRow(U2, Email(U2))}

\* C15: verify_token returns the identity provider's (id, email) whenever
\* the provider accepts the token, and then does not decode locally; otherwise
\* the locally decoded (sub, email) when the token decodes with the
\* configured secret; otherwise nothing.  Fails: when the provider's client
\* cannot be built the token is never decoded locally.
C15_ProviderThenLocal ==
    (pure.fn = "verify_token" /\ pure.step = "verified") =>
        LET t == pure.token
            accepted == pure.provider = "up" /\ t.iss \in {"supabase", "both"}
            decodes == t.iss \in {"local", "both"}
        IN  IF accepted
            THEN /\ pure.out.result = {[user_id |-> t.id, email |-> t.email]}
                 /\ \A i \in 1..Len(pure.out.calls) : pure.out.calls[i] # "jwt.decode"
            ELSE IF decodes
            THEN pure.out.result = {[user_id |-> t.id, email |-> t.email]}
            ELSE pure.out.result = {}

\* C16: a request to create-paypal-session, capture-paypal-payment,
\* create-paytr-session, create-checkout-session or verify-iap whose token
\* does not verify is answered 401 before the handler runs: no account, no
\* order at a provider and no count of applied orders changes, and only a
\* request whose token verified goes on.
C16_RejectedTokenIs401 ==
    [][\A r \in Reqs :
          requests[r].pc = "idle" =>
             /\ requests'[r].pc \in {"create", "body"}
                   => requests'[r].token.iss # "invalid"
             /\ (requests'[r].pc = "done" /\ requests'[r].ep \in AuthEndpoints)
                   => /\ requests'[r].resp = Resp(401, "Invalid or expired token")
                      /\ requests'[r].log = {}
                      /\ graphzy_users' = graphzy_users
                      /\ paypal_orders' = paypal_orders
                      /\ applied' = applied]_vars

\* a capture request and an IAP request were both turned away with 401
C16_Witness ==
    \E r1, r2 \in Reqs :
        /\ Done(r1) /\ requests[r1].ep = "capture_paypal_payment"
        /\ requests[r1].resp.status = 401
        /\ Done(r2) /\ requests[r2].ep = "verify_iap"
        /\ requests[r2].resp.status = 401

StripeSecrets == {"STRIPE_SECRET_KEY", "STRIPE_PRICE_ID", "STRIPE_WEBHOOK_SECRET"}

\* C17: when a secret of a provider is absent from the configuration, every
\* session-creation and confirmation endpoint of that provider answers an
\* authenticated request with a 500 and updates no account.  Fails:
\* paypal_webhook reads no configuration and answers 200.
C17_FailsClosed ==
    \A r \in Reqs :
        (Done(r) /\ requests[r].resp.status # 401) =>
            LET missing ==
                  \/ /\ requests[r].ep \in {"create_paypal_session",
                                              "capture_paypal_payment", "paypal_webhook"}
                     /\ ~PaypalConfigured(env)
                  \/ /\ requests[r].ep \in {"create_checkout_session", "stripe_webhook"}
                     /\ ~(StripeSecrets \subseteq env)
                  \/ /\ requests[r].ep \in {"create_paytr_session", "paytr_callback"}
                     /\ \E f \in {"paytr_merchant_id", "paytr_merchant_key",
                                    "paytr_merchant_salt"} :
                            ~HasAttr(settings, f) \/ ~Truthy(settings[f])
            IN  missing => /\ requests[r].resp.status = 500
                           /\ \A e \in requests[r].log : e[1] # "reconcile"

AccountFields ==
    {"id", "email", "first_name", "last_name", "subscription_tier", "chart_count"}

\* C18: update_user_subscription, update_user_chart_count and
\* update_user_profile write only the fields they were asked to write: every
\* other field of the target account and every other account is as before.
\* Fails: update_user_profile re-creates an account its lookup did not find.
C18_PartialUpdateFrame ==
    (pure.fn = "store" /\ pure.op # "none") =>
        /\ {x \in graphzy_users : x.id # pure.user_id}
              = {x \in pure.before : x.id # pure.user_id}
        /\ \A x \in RowsOf(pure.before, pure.user_id) :
              \E y \in RowsOf(graphzy_users, pure.user_id) :
                 \A f \in AccountFields \ pure.fields : y[f] = x[f]

\* the rows of user_id are pro and nothing else differs between the tables
OnlyTierSetPro(before, after, user_id) ==
    after = {IF x.id = user_id THEN [x EXCEPT !.subscription_tier = "pro"] ELSE x :
                x \in before}

\* a stripe_webhook request is answered in this step, with the stripe package
\* installed and the webhook secret set
StripeAnswers(r) ==
    /\ Answers(r)
    /\ requests'[r].ep = "stripe_webhook"
    /\ {"stripe", "STRIPE_WEBHOOK_SECRET"} \subseteq env

CompletedFor(event) ==
    event.type = "checkout.session.completed" /\ Truthy(event.user_id)

\* C19 as stated: a checkout.session.completed event for u sets u pro, every
\* other event changes no account, and both are answered 200 {status: ok}.
\* Fails when the tier update raises: the answer is then a 500.
C19_AlwaysOk ==
    [][\A r \in Reqs :
          StripeAnswers(r) =>
             /\ requests'[r].resp = Resp(200, "ok")
             /\ IF CompletedFor(requests'[r].input.event)
                THEN OnlyTierSetPro(graphzy_users, graphzy_users',
                                    requests'[r].input.event.user_id)
                ELSE graphzy_users' = graphzy_users]_vars

\* C19, amended: a checkout.session.completed event for u sets the tier of
\* u's account, if there is one, to pro and is answered 200 {status: ok},
\* unless the tier update raises, in which case the answer is a 500 and no
\* account changes; every other event changes no account and is answered
\* 200 {status: ok}.
C19_DispatchOnType ==
    [][\A r \in Reqs :
          StripeAnswers(r) =>
             IF CompletedFor(requests'[r].input.event)
             THEN \/ /\ requests'[r].resp = Resp(200, "ok")
                     /\ OnlyTierSetPro(graphzy_users, graphzy_users',
                                       requests'[r].input.event.user_id)
                  \/ /\ requests'[r].resp.status = 500
                     /\ graphzy_users' = graphzy_users
             ELSE /\ requests'[r].resp = Resp(200, "ok")
                  /\ graphzy_users' = graphzy_users]_vars

\* one webhook request made U1 pro, another was an invoice event, answered
\* ok, while U2 is stored and free
C19_Witness ==
    \E r1, r2 \in Reqs :
        /\ Done(r1) /\ requests[r1].ep = "stripe_webhook"
        /\ CompletedFor(requests[r1].input.event)
        /\ requests[r1].resp = Resp(200, "ok")
        /\ IsPro(graphzy_users, U1)
        /\ Done(r2) /\ requests[r2].ep = "stripe_webhook"
        /\ requests[r2].input.event.type = "invoice.paid"
        /\ requests[r2].resp = Resp(200, "ok")
        /\ \E x \in RowsOf(graphzy_users, U2) : x.subscription_tier = "free"

\* C20: a paytr_callback whose form lacks merchant_oid, status, total_amount
\* or hash is answered with a 400 before any hash is compared, and changes no
\* account.  Fails: the handler raises on settings.paytr_merchant_key first
\* and the answer is a 500.
C20_MissingFieldIs400 ==
    \A r \in Reqs :
        ( /\ Done(r)
          /\ requests[r].ep = "paytr_callback"
          /\ \E f \in {"merchant_oid", "status", "total_amount", "hash"} :
                ~Truthy(requests[r].input[f]) )
        => /\ requests[r].resp.status = 400
           /\ ~requests[r].sig_verified
           /\ requests[r].log = {}

C22_FailedIsAcknowledged ==
    \A r \in Reqs :
        ( /\ Done(r)
          /\ requests[r].ep = "paytr_callback"
          /\ requests[r].input \in PaytrCallbacks
          /\ requests[r].input.status # Success )
        => /\ requests[r].resp = Resp(200, "Payment failed")
           /\ requests[r].log = {}

\* the errors of create_paytr_session that carry what the provider stated
ProviderReasons ==
    {"Failed to create PayTR session: PayTR API HTTP error",
     "Failed to create PayTR session: PayTR error: reason"}

\* C23: when the PayTR token endpoint answers with a non-2xx status or with
\* a JSON status other than "success", create_paytr_session denies the
\* request with an error carrying the provider's stated reason, returns no
\* redirect URL and changes no account.  Fails: the handler raises on
\* settings.paytr_merchant_id before it builds the request, so its error
\* never carries a reason of the provider.
C23_DeniedWithReason ==
    ( /\ pure.fn = "create_paytr_session"
      /\ pure.step = "answered"
      /\ pure.outcome \in {"http_error", "api_error"} )
    => /\ pure.resp.status >= 400
       /\ pure.resp.detail \in ProviderReasons
       /\ pure.resp.data = None
       /\ graphzy_users = pure.before

\* C24: on a PAYMENT.CAPTURE.COMPLETED event paypal_webhook resolves the
\* subject of the order and applies the reconciler, so that the subject is
\* pro afterwards.  Fails: the handler reads the order id and returns; it
\* looks up no subject and updates no account.
C24_WebhookUpgrades ==
    [][\A r \in Reqs : \A o \in paypal_orders :
          ( /\ Answers(r)
            /\ requests'[r].ep = "paypal_webhook"
            /\ requests'[r].input.event.event_type = "PAYMENT.CAPTURE.COMPLETED"
            /\ requests'[r].input.event.order_id = o.id
            /\ o.captured
            /\ RowsOf(graphzy_users, o.creator) # {} )
          => IsPro(graphzy_users', o.creator)]_vars

\* the dependency get_current_user of slot r takes a step
Resolves(r) ==
    /\ requests[r].pc \in {"idle", "create"}
    /\ requests'[r].pc \in {"create", "body"}

\* C25: once an account exists, no execution of get_current_user changes its
\* subscription_tier, chart_count or email, whatever the interleaving and
\* even when the lookup transiently reports the account absent.  Fails: after
\* such a lookup create_user upserts a row with tier free and chart_count 0
\* over the stored one.
C25_ExistingAccountKept ==
    [][\A r \in Reqs :
          Resolves(r) =>
              \A x \in graphzy_users : \E y \in graphzy_users' :
                  /\ y.id = x.id
                  /\ y.subscription_tier = x.subscription_tier
                  /\ y.chart_count = x.chart_count
                  /\ y.email = x.email]_vars

\* C26: capture_paypal_payment upgrades only the account that created the
\* order: a capture requested by another user never sets that user pro.
\* Fails: the handler never compares the order with its caller and updates
\* the caller.
C26_OnlyCreatorUpgraded ==
    [][\A r \in Reqs : \A o \in paypal_orders :
          ( /\ Answers(r)
            /\ requests'[r].ep = "capture_paypal_payment"
            /\ requests'[r].input \in CaptureInputs
            /\ requests'[r].input.order_id = o.id
            /\ o.creator # requests[r].current_user.id )
          => ( IsPro(graphzy_users', requests[r].current_user.id)
                  => IsPro(graphzy_users, requests[r].current_user.id) )]_vars

\* C27: a free account whose stored chart_count has reached the limit is
\* never let through generate_chart, also when the lookup of get_current_user
\* failed and the request goes on with the default view of the account.
\* Fails: the default view has chart_count 0 and the quota is decided on the
\* view, so the chart is created.
C27_QuotaOnStoredCount ==
    [][\A r \in Reqs :
          ( /\ Answers(r)
            /\ requests'[r].ep = "generate_chart"
            /\ requests[r].current_user =
                   DefaultUser(requests[r].current_user.id, requests[r].current_user.email)
            /\ \E x \in RowsOf(graphzy_users, requests[r].current_user.id) :
                   /\ x.subscription_tier = "free"
                   /\ x.chart_count >= FREE_CHART_LIMIT )
          => /\ requests'[r].resp.status # 200
             /\ graphzy_charts' = graphzy_charts]_vars

\* the charts stored for an account
ChartsOf(user_id) == {c \in graphzy_charts : c.user_id = user_id}

\* C28: whenever no request is in flight, the stored chart_count of every
\* account equals the number of charts stored for it.  Fails: the count is
\* written from the view read at the start of the request, in a call separate
\* from the insert or delete of the chart, so it is lost, repeated or left
\* out.
C28_CountMatchesCharts ==
    (\A r \in Reqs : requests[r].pc = "idle")
    => \A x \in graphzy_users : x.chart_count = Cardinality(ChartsOf(x.id))

\* C29: every account get_current_user returns has a non-empty id, equal to
\* the subject of the token; a locally verified token without a sub claim is
\* answered 401.  Fails: verify_token returns a non-empty dict whose user_id
\* is None, and get_current_user goes on with the default account of that id.
C29_ResolvedIdIsSubject ==
    \A r \in Reqs :
        requests[r].pc = "body"
        => /\ Truthy(requests[r].current_user.id)
           /\ requests[r].current_user.id = requests[r].token.id

\* C30: delete_chart removes a chart and decrements chart_count only when the
\* caller owns the chart; otherwise it answers 403 or 404 and nothing
\* changes.  A chart is removed once and no chart_count goes below 0.
\* Fails: a request answered 403 or 404 has first run get_current_user,
\* whose upsert overwrites the caller's stored account.
C30_DeleteOnlyOwn ==
    /\ \A x \in graphzy_users : x.chart_count >= 0
    /\ \A r \in Reqs :
          ( /\ Done(r)
            /\ requests[r].ep = "delete_chart"
            /\ requests[r].resp.status \in {403, 404} )
          => \A e \in requests[r].log : e[1] = "upsert"

====
